---- MODULE Spec2Model ----
(***************************************************************************)
(* A model of src/src/reconcile.py: the two-pass bank/GL reconciliation    *)
(* (load_inputs, match_exact_amount, match_tolerance_date, build_outputs,  *)
(* main).  One action per function entry and per loop iteration.           *)
(*                                                                         *)
(* Amounts are float64 in the program (pd.to_numeric); they are modelled   *)
(* exactly, as binary fixed-point magnitudes rounded to 53 significant     *)
(* bits, so that b - TOLERANCE and b + TOLERANCE round as they do in the   *)
(* program.  Dates are whole days.  Texts are sequences of one-character   *)
(* strings.                                                                *)
(***************************************************************************)
EXTENDS Integers, Sequences, FiniteSets, TLC

\* ------------------------------------------------------------------ bounds
\* The largest number of rows of bank.csv and of gl.csv.
MaxBank == 2
MaxGl == 2

\* ----------------------------------------------------------------- float64
\* A finite float64 is [nan |-> FALSE, neg, mag]: mag is its magnitude in
\* units of 2^-FRAC_BITS, written as three limbs of 21 bits, most significant
\* first.  Every value of the model is below 8, so 63 bits hold it.
FRAC_BITS == 60
MANT_BITS == 53
LIMB == 2^21

RECURSIVE BitLen(_)
BitLen(n) == IF n = 0 THEN 0 ELSE 1 + BitLen(n \div 2)

MagBits(m) == IF m[1] > 0 THEN 42 + BitLen(m[1])
              ELSE IF m[2] > 0 THEN 21 + BitLen(m[2])
              ELSE BitLen(m[3])

MagCarry(m) == LET l1 == m[2] + m[3] \div LIMB
               IN  <<m[1] + l1 \div LIMB, l1 % LIMB, m[3] % LIMB>>

MagAdd(x, y) == MagCarry(<<x[1] + y[1], x[2] + y[2], x[3] + y[3]>>)

MagLess(x, y) == \/ x[1] < y[1]
                 \/ x[1] = y[1] /\ x[2] < y[2]
                 \/ x[1] = y[1] /\ x[2] = y[2] /\ x[3] < y[3]

\* x - y, for x >= y
MagSub(x, y) == LET b0 == IF x[3] < y[3] THEN 1 ELSE 0
                    d0 == x[3] + b0 * LIMB - y[3]
                    b1 == IF x[2] - b0 < y[2] THEN 1 ELSE 0
                    d1 == x[2] - b0 + b1 * LIMB - y[2]
                IN  <<x[1] - b1 - y[1], d1, d0>>

\* IEEE 754 round-to-nearest, ties-to-even, to MANT_BITS significant bits;
\* sticky says that non-zero bits lie below the last limb.
RoundMag(m, sticky) ==
    LET d == MagBits(m) - MANT_BITS
    IN  IF d <= 0 THEN m
        ELSE LET unit == 2^d
                 rem  == m[3] % unit
                 half == unit \div 2
                 odd  == (m[3] \div unit) % 2 = 1
                 up   == \/ rem > half
                         \/ rem = half /\ (sticky \/ odd)
             IN  MagCarry(<<m[1], m[2], m[3] - rem + (IF up THEN unit ELSE 0)>>)

Float(neg, mag) == [nan |-> FALSE, neg |-> neg /\ mag # <<0, 0, 0>>, mag |-> mag]
NaN == [nan |-> TRUE, neg |-> FALSE, mag |-> <<0, 0, 0>>]

\* The float64 nearest to the decimal c/100 (c in cents): what parsing the
\* text of a two-decimal amount returns.
FloatOfCents(c) ==
    LET a  == IF c < 0 THEN -c ELSE c
        n2 == a * 2^(FRAC_BITS - 42)
        n1 == (n2 % 100) * LIMB
        n0 == (n1 % 100) * LIMB
    IN  Float(c < 0, RoundMag(<<n2 \div 100, n1 \div 100, n0 \div 100>>, n0 % 100 # 0))

FNeg(x) == IF x.nan THEN x ELSE Float(~x.neg, x.mag)

FAdd(x, y) ==
    IF x.nan \/ y.nan THEN NaN
    ELSE IF x.neg = y.neg THEN Float(x.neg, RoundMag(MagAdd(x.mag, y.mag), FALSE))
    ELSE IF MagLess(x.mag, y.mag) THEN Float(y.neg, RoundMag(MagSub(y.mag, x.mag), FALSE))
    ELSE Float(x.neg, RoundMag(MagSub(x.mag, y.mag), FALSE))

FSub(x, y) == FAdd(x, FNeg(y))

\* FLeq with a missing amount read as 0.0 (a fillna(0) before comparing)
FLeqNaNAsZero(x, y) ==
    LET zx == IF x.nan THEN Float(FALSE, <<0, 0, 0>>) ELSE x
        zy == IF y.nan THEN Float(FALSE, <<0, 0, 0>>) ELSE y
    IN  IF zx.neg # zy.neg THEN zx.neg
        ELSE IF zx.neg THEN ~MagLess(zx.mag, zy.mag)
        ELSE ~MagLess(zy.mag, zx.mag)

\* x <= y; false when either is NaN
FLeq(x, y) ==
    /\ ~x.nan
    /\ ~y.nan
    /\ IF x.neg # y.neg THEN x.neg
       ELSE IF x.neg THEN ~MagLess(x.mag, y.mag)
       ELSE ~MagLess(y.mag, x.mag)

\* FEq with two missing amounts equal (None == None, or a fillna before ==)
FEqNaNEqual(x, y) == x = y

\* x == y; false when either is NaN
FEq(x, y) == ~x.nan /\ ~y.nan /\ x = y

\* --------------------------------------------------------------- constants
TOLERANCE == FloatOfCents(100)
DATE_WINDOW_DAYS == 3

\* -------------------------------------------------------------------- text
LowerCase == [A |-> "a", B |-> "b", C |-> "c", D |-> "d", E |-> "e", F |-> "f",
              G |-> "g", H |-> "h", I |-> "i", J |-> "j", K |-> "k", L |-> "l",
              M |-> "m", N |-> "n", O |-> "o", P |-> "p", Q |-> "q", R |-> "r",
              S |-> "s", T |-> "t", U |-> "u", V |-> "v", W |-> "w", X |-> "x",
              Y |-> "y", Z |-> "z"]
Lower(ch) == IF ch \in DOMAIN LowerCase THEN LowerCase[ch] ELSE ch

PUNCTUATION == {",", ".", "|", "/", "\\", "-", "_", ":", ";", "#", "(", ")", "[", "]"}
WHITESPACE == {" ", "\t", "\n", "\r"}

\* str.split(): the maximal runs of non-whitespace characters, in order
RECURSIVE SplitFrom(_, _, _)
SplitFrom(s, k, word) ==
    IF k > Len(s) THEN (IF word = <<>> THEN <<>> ELSE <<word>>)
    ELSE IF s[k] \in WHITESPACE
         THEN (IF word = <<>> THEN <<>> ELSE <<word>>) \o SplitFrom(s, k + 1, <<>>)
         ELSE SplitFrom(s, k + 1, Append(word, s[k]))
Split(s) == SplitFrom(s, 1, <<>>)

\* " ".join(words)
RECURSIVE Join(_)
Join(words) == IF words = <<>> THEN <<>>
               ELSE IF Len(words) = 1 THEN words[1]
               ELSE words[1] \o <<" ">> \o Join(Tail(words))

\* normalize_text that replaces the punctuation after collapsing the spaces
normalize_text_ReplaceLast(cell) ==
    IF ~cell.ok THEN <<>>
    ELSE LET lowered   == [k \in 1..Len(cell.v) |-> Lower(cell.v[k])]
             collapsed == Join(Split(lowered))
         IN  [k \in 1..Len(collapsed) |->
                IF collapsed[k] \in PUNCTUATION THEN " " ELSE collapsed[k]]

\* A text cell is [ok |-> TRUE, v |-> characters], or missing (NaN).
normalize_text(cell) ==
    IF ~cell.ok THEN <<>>
    ELSE LET lowered  == [k \in 1..Len(cell.v) |-> Lower(cell.v[k])]
             replaced == [k \in 1..Len(lowered) |->
                            IF lowered[k] \in PUNCTUATION THEN " " ELSE lowered[k]]
         IN  Join(Split(replaced))

\* set(str(norm).split())
Tokens(norm) == LET ws == Split(norm) IN {ws[k] : k \in 1..Len(ws)}

\* ------------------------------------------------------------------ inputs
\* A cell of a CSV file: [ok |-> TRUE, v |-> value], or text that does not
\* parse (for a description or memo: an empty cell).
Cell(v) == [ok |-> TRUE, v |-> v]
BadCell == [ok |-> FALSE, v |-> 0]
NoText == [ok |-> FALSE, v |-> <<>>]

\* pd.to_datetime(errors="coerce"): a day number, or NaT
NaT == [nat |-> TRUE, day |-> 0]
to_datetime(cell) == IF cell.ok THEN [nat |-> FALSE, day |-> cell.v] ELSE NaT

\* pd.to_numeric(errors="coerce"): the float64 of the decimal text, or NaN
to_numeric(cell) == IF cell.ok THEN FloatOfCents(cell.v) ELSE NaN

\* The rows the input files are drawn from: <<date, amount in cents, text>>.
\* Amounts 0.10, 1.10, 1.11: distances 1.00, 0.01, 1.01.  Days 7, 10, 13, 14:
\* distances 3 and 4 from day 10.  Texts with 0, 1 and 2 tokens in common
\* with "A-b".
BankPool ==
    { <<Cell(10), Cell(110), Cell(<<"A", "-", "b">>)>>,
      <<Cell(10), Cell(10),  Cell(<<"A", "-", "b">>)>>,
      <<BadCell,  Cell(110), Cell(<<"A", "-", "b">>)>>,
      <<Cell(10), BadCell,   Cell(<<"A", "-", "b">>)>>,
      <<Cell(10), Cell(111), Cell(<<"A", "-", "b">>)>> }

GlPool ==
    { <<Cell(10), Cell(110), Cell(<<"b">>)>>,
      <<Cell(13), Cell(10),  Cell(<<"c">>)>>,
      <<Cell(13), Cell(111), NoText>>,
      <<Cell(14), Cell(110), Cell(<<"b">>)>>,
      <<BadCell,  Cell(110), Cell(<<"b">>)>>,
      <<Cell(13), BadCell,   Cell(<<"b">>)>>,
      <<Cell(7),  Cell(110), Cell(<<"B", ",", "a">>)>> }

SeqsUpTo(S, n) == UNION {[1..k -> S] : k \in 1..n}

\* bank.csv and gl.csv with the identifiers the loader's contract makes
\* unique: 101, 102, ... and 201, 202, ...
BankCsv(rows) == [k \in 1..Len(rows) |->
    [bank_id |-> 100 + k, txn_date |-> rows[k][1], amount |-> rows[k][2],
     description |-> rows[k][3]]]
GlCsv(rows) == [k \in 1..Len(rows) |->
    [gl_id |-> 200 + k, posting_date |-> rows[k][1], amount |-> rows[k][2],
     memo |-> rows[k][3]]]

\* ------------------------------------------------------------------- state
VARIABLES
    bank_exists, gl_exists,  \* BANK_FILE.exists(), GL_FILE.exists()
    bank_csv, gl_csv,        \* the rows of the two files
    pc,                      \* where main() is
    bank, gl,                \* the two frames, by row
    todo,                    \* the rows the running loop has still to visit
    gl_open,                 \* the rows of the gl_open copy
    cur, candidates, g, best,\* the loop's locals: i, candidates, g, best
    m1, m2,                  \* the matches of phase 1 and of phase 2
    matched_full, unmatched_bank, unmatched_gl, summary,
    written                  \* reconciliation_pack.xlsx is written

vars == <<bank_exists, gl_exists, bank_csv, gl_csv, pc, bank, gl, todo, gl_open,
          cur, candidates, g, best, m1, m2, matched_full, unmatched_bank,
          unmatched_gl, summary, written>>

inputs == <<bank_exists, gl_exists, bank_csv, gl_csv>>
locals == <<cur, candidates, g, best>>
outputs == <<matched_full, unmatched_bank, unmatched_gl, summary>>

Init ==
    /\ bank_exists \in BOOLEAN
    /\ gl_exists \in BOOLEAN
    /\ bank_csv \in IF bank_exists THEN {BankCsv(r) : r \in SeqsUpTo(BankPool, MaxBank)}
                    ELSE {<<>>}
    /\ gl_csv \in IF gl_exists THEN {GlCsv(r) : r \in SeqsUpTo(GlPool, MaxGl)}
                  ELSE {<<>>}
    /\ pc = "start"
    /\ bank = <<>>
    /\ gl = <<>>
    /\ todo = <<>>
    /\ gl_open = {}
    /\ cur = 0
    /\ candidates = {}
    /\ g = 0
    /\ best = 0
    /\ m1 = <<>>
    /\ m2 = <<>>
    /\ matched_full = <<>>
    /\ unmatched_bank = <<>>
    /\ unmatched_gl = <<>>
    /\ summary = <<>>
    /\ written = FALSE

\* ------------------------------------------------------------- load_inputs
\* InputsMissing with "and" for "or": one absent file goes unnoticed
InputsMissingBoth == ~bank_exists /\ ~gl_exists

InputsMissing == ~bank_exists \/ ~gl_exists

LoadBank(csv) == [k \in 1..Len(csv) |->
    [bank_id     |-> csv[k].bank_id,
     txn_date    |-> to_datetime(csv[k].txn_date),
     amount      |-> to_numeric(csv[k].amount),
     description |-> csv[k].description,
     desc_norm   |-> normalize_text(csv[k].description),
     matched     |-> FALSE]]

LoadGl(csv) == [k \in 1..Len(csv) |->
    [gl_id        |-> csv[k].gl_id,
     posting_date |-> to_datetime(csv[k].posting_date),
     amount       |-> to_numeric(csv[k].amount),
     memo         |-> csv[k].memo,
     memo_norm    |-> normalize_text(csv[k].memo),
     matched      |-> FALSE]]

\* raise FileNotFoundError: main() ends there
LoadInputsFail ==
    /\ pc = "start"
    /\ InputsMissing
    /\ pc' = "failed"
    /\ UNCHANGED <<inputs, bank, gl, todo, gl_open, locals, m1, m2, outputs, written>>

LoadInputs ==
    /\ pc = "start"
    /\ ~InputsMissing
    /\ bank' = LoadBank(bank_csv)
    /\ gl' = LoadGl(gl_csv)
    /\ pc' = "loaded"
    /\ UNCHANGED <<inputs, todo, gl_open, locals, m1, m2, outputs, written>>

\* ------------------------------------------------------ shared frame steps
\* frame[~frame["matched"]], as the rows it keeps, in order
RECURSIVE RowsFrom(_, _)
RowsFrom(frame, k) ==
    IF k > Len(frame) THEN <<>>
    ELSE (IF frame[k].matched THEN <<>> ELSE <<k>>) \o RowsFrom(frame, k + 1)
\* Unmatched without the filter on matched: every row, in order
UnmatchedAll(frame) == [k \in 1..Len(frame) |-> k]

Unmatched(frame) == RowsFrom(frame, 1)

\* GlOpen without the filter on matched
GlOpenAll(glf) == 1..Len(glf)

\* gl[~gl["matched"]].copy()
GlOpen(glf) == {j \in 1..Len(glf) : ~glf[j].matched}

\* MarkBank writing to a copy of the frame: bank is left as it was
MarkBankOnCopy(bankf, i) == bankf

\* bank.at[i, "matched"] = True
MarkBank(bankf, i) == [bankf EXCEPT ![i].matched = TRUE]

\* MarkGl writing to a copy of the frame (chained indexing): gl is left as it was
MarkGlOnCopy(glf, id) == glf

\* gl.loc[gl["gl_id"] == id, "matched"] = True
MarkGl(glf, id) == [j \in 1..Len(glf) |->
                      IF glf[j].gl_id = id THEN [glf[j] EXCEPT !.matched = TRUE]
                      ELSE glf[j]]

MatchResult(b, gr, type) == [bank_id |-> b.bank_id, gl_id |-> gr.gl_id, match_type |-> type]

\* ------------------------------------------------------ match_exact_amount
ExactBegin ==
    /\ pc = "loaded"
    /\ m1' = <<>>
    /\ gl_open' = GlOpen(gl)
    /\ todo' = Unmatched(bank)
    /\ pc' = "exact"
    /\ UNCHANGED <<inputs, bank, gl, locals, m2, outputs, written>>

\* ExactCandidates that also asks for the posting date within the window
ExactCandidatesInWindow(b, glf, open) ==
    {j \in open : /\ FEq(glf[j].amount, b.amount)
                  /\ ~b.txn_date.nat
                  /\ ~glf[j].posting_date.nat
                  /\ glf[j].posting_date.day >= b.txn_date.day - DATE_WINDOW_DAYS
                  /\ glf[j].posting_date.day <= b.txn_date.day + DATE_WINDOW_DAYS}

\* ExactCandidates that compares the amounts within the tolerance
ExactCandidatesWithinTolerance(b, glf, open) ==
    {j \in open : /\ FLeq(FSub(b.amount, TOLERANCE), glf[j].amount)
                  /\ FLeq(glf[j].amount, FAdd(b.amount, TOLERANCE))}

\* gl_open[gl_open["amount"] == b["amount"]]
ExactCandidates(b, glf, open) == {j \in open : FEq(glf[j].amount, b.amount)}

\* ExactAccept that takes the first of several candidates
ExactAcceptAny(cands) == Cardinality(cands) >= 1

\* len(candidates) == 1
ExactAccept(cands) == Cardinality(cands) = 1

ExactStep ==
    /\ pc = "exact"
    /\ todo # <<>>
    /\ LET i     == Head(todo)
           b     == bank[i]
           cands == ExactCandidates(b, gl, gl_open)
       IN  /\ cur' = i
           /\ candidates' = cands
           /\ todo' = Tail(todo)
           /\ IF ExactAccept(cands)
              THEN LET j == CHOOSE x \in cands : TRUE
                   IN  /\ g' = j
                       /\ m1' = Append(m1, MatchResult(b, gl[j], "exact_amount"))
                       /\ bank' = MarkBank(bank, i)
                       /\ gl' = MarkGl(gl, gl[j].gl_id)
                       /\ gl_open' = GlOpen(MarkGl(gl, gl[j].gl_id))
              ELSE UNCHANGED <<g, m1, bank, gl, gl_open>>
    /\ UNCHANGED <<inputs, pc, best, m2, outputs, written>>

\* ---------------------------------------------------- match_tolerance_date
\* match_exact_amount returns; match_tolerance_date starts
ToleranceBegin ==
    /\ pc = "exact"
    /\ todo = <<>>
    /\ m2' = <<>>
    /\ gl_open' = GlOpen(gl)
    /\ todo' = Unmatched(bank)
    /\ cur' = 0
    /\ candidates' = {}
    /\ g' = 0
    /\ pc' = "tolerance"
    /\ UNCHANGED <<inputs, bank, gl, best, m1, outputs, written>>

\* pd.isna(b["txn_date"]) or pd.isna(b["amount"])
Skipped(b) == b.txn_date.nat \/ b.amount.nan

\* InDateWindow with a window one day too wide on each side
InDateWindowWide(b, gr) ==
    /\ ~b.txn_date.nat
    /\ ~gr.posting_date.nat
    /\ gr.posting_date.day >= b.txn_date.day - (DATE_WINDOW_DAYS + 1)
    /\ gr.posting_date.day <= b.txn_date.day + (DATE_WINDOW_DAYS + 1)

\* lo <= posting_date <= hi, with lo, hi = txn_date -/+ DATE_WINDOW_DAYS
InDateWindow(b, gr) ==
    /\ ~b.txn_date.nat
    /\ ~gr.posting_date.nat
    /\ gr.posting_date.day >= b.txn_date.day - DATE_WINDOW_DAYS
    /\ gr.posting_date.day <= b.txn_date.day + DATE_WINDOW_DAYS

\* gl_open["amount"].between(b["amount"] - TOLERANCE, b["amount"] + TOLERANCE)
InTolerance(b, gr) ==
    /\ FLeq(FSub(b.amount, TOLERANCE), gr.amount)
    /\ FLeq(gr.amount, FAdd(b.amount, TOLERANCE))

ToleranceCandidates(b, glf, open) ==
    {j \in open : InDateWindow(b, glf[j]) /\ InTolerance(b, glf[j])}

\* len(b_tokens.intersection(set(str(m).split())))
TokenOverlap(b, gr) == Cardinality(Tokens(b.desc_norm) \cap Tokens(gr.memo_norm))

\* TopScored with the sort ascending: the rows of the lowest score
TopScoredAscending(b, glf, cands) ==
    {j \in cands : \A k \in cands : TokenOverlap(b, glf[j]) <= TokenOverlap(b, glf[k])}

\* The rows sort_values(by="token_overlap", ascending=False) may put first:
\* every row of the highest score (the order among equal keys is the sort's).
TopScored(b, glf, cands) ==
    {j \in cands : \A k \in cands : TokenOverlap(b, glf[k]) <= TokenOverlap(b, glf[j])}

\* ToleranceAccept without the single-candidate case
ToleranceAcceptByScore(n, score) == score >= 1

\* len(candidates) == 1 or best["token_overlap"] >= 1
ToleranceAccept(n, score) == n = 1 \/ score >= 1

ToleranceStep ==
    /\ pc = "tolerance"
    /\ todo # <<>>
    /\ LET i     == Head(todo)
           b     == bank[i]
           cands == ToleranceCandidates(b, gl, gl_open)
       IN  /\ cur' = i
           /\ todo' = Tail(todo)
           /\ IF Skipped(b)
              THEN UNCHANGED <<candidates, best, m2, bank, gl, gl_open>>
              ELSE IF cands = {}
              THEN /\ candidates' = cands
                   /\ UNCHANGED <<best, m2, bank, gl, gl_open>>
              ELSE \E j \in TopScored(b, gl, cands) :
                   /\ candidates' = cands
                   /\ best' = j
                   /\ IF ToleranceAccept(Cardinality(cands), TokenOverlap(b, gl[j]))
                      THEN /\ m2' = Append(m2, MatchResult(b, gl[j], "tolerance_date"))
                           /\ bank' = MarkBank(bank, i)
                           /\ gl' = MarkGl(gl, gl[j].gl_id)
                           /\ gl_open' = GlOpen(MarkGl(gl, gl[j].gl_id))
                      ELSE UNCHANGED <<m2, bank, gl, gl_open>>
    /\ UNCHANGED <<inputs, pc, g, m1, outputs, written>>

\* ----------------------------------------------------------- build_outputs
\* frame.drop(columns=["desc_norm", "matched"])
BankClean(b) == [bank_id |-> b.bank_id, txn_date |-> b.txn_date, amount |-> b.amount,
                 description |-> b.description]
GlClean(gr) == [gl_id |-> gr.gl_id, posting_date |-> gr.posting_date,
                amount |-> gr.amount, memo |-> gr.memo]

\* UnmatchedBank without the filter on matched
UnmatchedBankAll(bankf) == [k \in 1..Len(bankf) |-> BankClean(bankf[k])]

\* bank[bank["matched"] == False], gl[gl["matched"] == False], cleaned
UnmatchedBank(bankf) == LET rows == Unmatched(bankf)
                        IN  [k \in 1..Len(rows) |-> BankClean(bankf[rows[k]])]
UnmatchedGl(glf) == LET rows == Unmatched(glf)
                    IN  [k \in 1..Len(rows) |-> GlClean(glf[rows[k]])]

\* the rows of frame whose key equals id, in order
RECURSIVE KeyRows(_, _, _, _)
KeyRows(frame, key, id, k) ==
    IF k > Len(frame) THEN <<>>
    ELSE (IF frame[k][key] = id THEN <<k>> ELSE <<>>) \o KeyRows(frame, key, id, k + 1)

\* one row of matched.merge(bank_clean, on="bank_id", how="left")
\*                   .merge(gl_clean, on="gl_id", how="left", suffixes=...)
FullRow(m, bankf, glf, bk, gk) ==
    [bank_id      |-> m.bank_id,
     gl_id        |-> m.gl_id,
     match_type   |-> m.match_type,
     txn_date     |-> IF bk = 0 THEN NaT ELSE bankf[bk].txn_date,
     amount_bank  |-> IF bk = 0 THEN NaN ELSE bankf[bk].amount,
     description  |-> IF bk = 0 THEN NoText ELSE bankf[bk].description,
     posting_date |-> IF gk = 0 THEN NaT ELSE glf[gk].posting_date,
     amount_gl    |-> IF gk = 0 THEN NaN ELSE glf[gk].amount,
     memo         |-> IF gk = 0 THEN NoText ELSE glf[gk].memo]

\* a left join keeps a row of the left frame that has no partner
Partners(rows) == IF rows = <<>> THEN <<0>> ELSE rows

RECURSIVE MergeFrom(_, _, _, _)
MergeFrom(matched, bankf, glf, k) ==
    IF k > Len(matched) THEN <<>>
    ELSE LET m  == matched[k]
             bs == Partners(KeyRows(bankf, "bank_id", m.bank_id, 1))
             gs == Partners(KeyRows(glf, "gl_id", m.gl_id, 1))
             joined == [n \in 1..(Len(bs) * Len(gs)) |->
                          FullRow(m, bankf, glf, bs[((n - 1) \div Len(gs)) + 1],
                                  gs[((n - 1) % Len(gs)) + 1])]
         IN  joined \o MergeFrom(matched, bankf, glf, k + 1)
MatchedFull(matched, bankf, glf) == MergeFrom(matched, bankf, glf, 1)

CountType(matched, type) ==
    Cardinality({k \in 1..Len(matched) : matched[k].match_type = type})

\* matched.groupby("match_type").size(), then the TOTAL_MATCHED row
GroupRow(matched, type) ==
    IF CountType(matched, type) = 0 THEN <<>>
    ELSE <<[match_type |-> type, count |-> CountType(matched, type)]>>
Summary(matched) ==
    GroupRow(matched, "exact_amount") \o GroupRow(matched, "tolerance_date")
        \o <<[match_type |-> "TOTAL_MATCHED", count |-> Len(matched)]>>

\* match_tolerance_date returns; matches = m1 + m2; build_outputs
BuildOutputs ==
    /\ pc = "tolerance"
    /\ todo = <<>>
    /\ matched_full' = MatchedFull(m1 \o m2, bank, gl)
    /\ unmatched_bank' = UnmatchedBank(bank)
    /\ unmatched_gl' = UnmatchedGl(gl)
    /\ summary' = Summary(m1 \o m2)
    /\ cur' = 0
    /\ candidates' = {}
    /\ best' = 0
    /\ pc' = "built"
    /\ UNCHANGED <<inputs, bank, gl, todo, gl_open, g, m1, m2, written>>

\* the four sheets are written to reconciliation_pack.xlsx
WriteReport ==
    /\ pc = "built"
    /\ written' = TRUE
    /\ pc' = "done"
    /\ UNCHANGED <<inputs, bank, gl, todo, gl_open, locals, m1, m2, outputs>>

\* -------------------------------------------------------------------- main
Next ==
    \/ LoadInputsFail
    \/ LoadInputs
    \/ ExactBegin
    \/ ExactStep
    \/ ToleranceBegin
    \/ ToleranceStep
    \/ BuildOutputs
    \/ WriteReport

Spec == Init /\ [][Next]_vars

\* -------------------------------------------------------------- properties
Matches == m1 \o m2

MatchesOfBank(id) == {k \in 1..Len(Matches) : Matches[k].bank_id = id}
MatchesOfGl(id) == {k \in 1..Len(Matches) : Matches[k].gl_id = id}

UniqueIds ==
    /\ \A p, q \in 1..Len(bank_csv) :
          bank_csv[p].bank_id = bank_csv[q].bank_id => p = q
    /\ \A p, q \in 1..Len(gl_csv) :
          gl_csv[p].gl_id = gl_csv[q].gl_id => p = q

Finished == pc \in {"built", "done"}

\* C1: with unique bank_id and unique gl_id in the inputs, no bank_id and no
\* gl_id is in more than one MatchResult of m1 + m2, after every iteration of
\* either phase and at the end of the run.
C1_Injectivity ==
    UniqueIds =>
        \A p, q \in 1..Len(Matches) :
            p # q => /\ Matches[p].bank_id # Matches[q].bank_id
                     /\ Matches[p].gl_id # Matches[q].gl_id

\* Two bank rows of one amount have both been matched, one in each phase.
C1_Witness ==
    /\ pc = "done"
    /\ m1 # <<>>
    /\ m2 # <<>>
    /\ \E p, q \in 1..Len(bank) :
          /\ p # q
          /\ FEq(bank[p].amount, bank[q].amount)
          /\ bank[p].matched
          /\ bank[q].matched

\* C2: at the end of a run every bank record is the bank side of exactly one
\* MatchResult or a row of the unmatched-bank output, never both and never
\* neither.
C2_Partition ==
    Finished =>
        \A k \in 1..Len(bank) :
            LET n == Cardinality(MatchesOfBank(bank[k].bank_id))
                u == Cardinality({r \in 1..Len(unmatched_bank) :
                                    unmatched_bank[r].bank_id = bank[k].bank_id})
            IN  \/ n = 1 /\ u = 0
                \/ n = 0 /\ u >= 1

\* A finished run with a matched and an unmatched bank record.
C2_Witness ==
    /\ pc = "done"
    /\ Matches # <<>>
    /\ unmatched_bank # <<>>

\* C3: after every iteration of phase 1 and of phase 2, a bank record's matched
\* flag is true exactly when its bank_id is in a MatchResult emitted so far,
\* and a GL record's exactly when its gl_id is.
C3_FlagAgreement ==
    /\ \A k \in 1..Len(bank) :
          bank[k].matched <=> MatchesOfBank(bank[k].bank_id) # {}
    /\ \A j \in 1..Len(gl) :
          gl[j].matched <=> MatchesOfGl(gl[j].gl_id) # {}

\* In the middle of phase 2: a match has been emitted, a bank row is still to
\* be visited and a GL row is still open.
C3_Witness ==
    /\ pc = "tolerance"
    /\ todo # <<>>
    /\ m2 # <<>>
    /\ \E k \in 1..Len(bank) : bank[k].matched
    /\ \E j \in 1..Len(gl) : ~gl[j].matched

\* C4: a bank record and a GL record of identical parsed amounts, that amount
\* on no other bank and no other GL record, are in the final match list with
\* type exact_amount, whatever their dates and texts.
UniquePair(k, j) ==
    /\ FEq(bank[k].amount, gl[j].amount)
    /\ \A k2 \in 1..Len(bank) : FEq(bank[k2].amount, bank[k].amount) => k2 = k
    /\ \A j2 \in 1..Len(gl) : FEq(gl[j2].amount, gl[j].amount) => j2 = j

C4_ExactPriority ==
    Finished =>
        \A k \in 1..Len(bank) : \A j \in 1..Len(gl) :
            UniquePair(k, j) =>
                \E n \in 1..Len(Matches) :
                    Matches[n] = MatchResult(bank[k], gl[j], "exact_amount")

\* Such a pair was matched although a date is missing or the dates are more
\* than the window apart, and the texts share no token.
C4_Witness ==
    /\ pc = "done"
    /\ \E k \in 1..Len(bank) : \E j \in 1..Len(gl) :
          /\ UniquePair(k, j)
          /\ \/ bank[k].txn_date.nat
             \/ gl[j].posting_date.nat
             \/ gl[j].posting_date.day - bank[k].txn_date.day > DATE_WINDOW_DAYS
          /\ \E k2 \in 1..Len(bank) : \E j2 \in 1..Len(gl) :
                /\ UniquePair(k2, j2)
                /\ TokenOverlap(bank[k2], gl[j2]) = 0

BankInType(k, type) ==
    \E n \in MatchesOfBank(bank[k].bank_id) : Matches[n].match_type = type
GlInType(j, type) ==
    \E n \in MatchesOfGl(gl[j].gl_id) : Matches[n].match_type = type

\* C5 as stated: at the end of the run a bank or GL record whose amount or
\* whose date is missing has a false matched flag and is in no MatchResult.
C5_MissingFieldUnmatched ==
    pc = "done" =>
        /\ \A k \in 1..Len(bank) :
              (bank[k].amount.nan \/ bank[k].txn_date.nat) =>
                  ~bank[k].matched /\ MatchesOfBank(bank[k].bank_id) = {}
        /\ \A j \in 1..Len(gl) :
              (gl[j].amount.nan \/ gl[j].posting_date.nat) =>
                  ~gl[j].matched /\ MatchesOfGl(gl[j].gl_id) = {}

\* C5 amended: at the end of the run a record whose amount is missing has a
\* false matched flag and is in no MatchResult; a record whose date is missing
\* is in no tolerance_date MatchResult (an exact_amount one may hold it).
C5_MissingAmountUnmatched ==
    pc = "done" =>
        /\ \A k \in 1..Len(bank) :
              /\ bank[k].amount.nan =>
                    ~bank[k].matched /\ MatchesOfBank(bank[k].bank_id) = {}
              /\ bank[k].txn_date.nat => ~BankInType(k, "tolerance_date")
        /\ \A j \in 1..Len(gl) :
              /\ gl[j].amount.nan =>
                    ~gl[j].matched /\ MatchesOfGl(gl[j].gl_id) = {}
              /\ gl[j].posting_date.nat => ~GlInType(j, "tolerance_date")

\* A finished run that left a bank and a GL record without amount unmatched
\* and matched a record without date by exact amount.
C5_Witness ==
    /\ pc = "done"
    /\ \E k \in 1..Len(bank) : bank[k].amount.nan
    /\ \E j \in 1..Len(gl) : gl[j].amount.nan
    /\ \/ \E k \in 1..Len(bank) : bank[k].txn_date.nat /\ BankInType(k, "exact_amount")
       \/ \E j \in 1..Len(gl) : gl[j].posting_date.nat /\ GlInType(j, "exact_amount")

\* The bank row the next iteration of phase 2 visits has its date and amount.
VisitsPresent ==
    /\ pc = "tolerance"
    /\ todo # <<>>
    /\ ~bank[Head(todo)].txn_date.nat
    /\ ~bank[Head(todo)].amount.nan

\* The bank row the last iteration of phase 2 visited had its date and amount.
VisitedPresent ==
    /\ pc = "tolerance"
    /\ cur # 0
    /\ ~bank[cur].txn_date.nat
    /\ ~bank[cur].amount.nan

\* No tolerance_date MatchResult holds a record with a missing field.
C6_PresentInTolerance ==
    \A n \in 1..Len(Matches) :
        Matches[n].match_type = "tolerance_date" =>
            /\ \A k \in 1..Len(bank) :
                  bank[k].bank_id = Matches[n].bank_id =>
                      ~bank[k].txn_date.nat /\ ~bank[k].amount.nan
            /\ \A j \in 1..Len(gl) :
                  gl[j].gl_id = Matches[n].gl_id =>
                      ~gl[j].posting_date.nat /\ ~gl[j].amount.nan

\* The iteration of phase 2 on a bank row with a missing field changes nothing.
C6_SkipChangesNothing ==
    (/\ pc = "tolerance"
     /\ todo # <<>>
     /\ bank[Head(todo)].txn_date.nat \/ bank[Head(todo)].amount.nan)
        => /\ bank' = bank
           /\ gl' = gl
           /\ m1' = m1
           /\ m2' = m2

\* C6: every tolerance_date MatchResult has a bank record with date and amount
\* present and a GL record with date and amount present, and the iteration of
\* match_tolerance_date on a bank record with a missing date or amount changes
\* no flag and no match list.
C6_NoMissingInTolerance ==
    []C6_PresentInTolerance /\ [][C6_SkipChangesNothing]_vars

\* Phase 2 has emitted a match and has then skipped a bank row with a missing
\* field while a GL row was open.
C6_Witness ==
    /\ pc = "tolerance"
    /\ m2 # <<>>
    /\ cur # 0
    /\ bank[cur].txn_date.nat \/ bank[cur].amount.nan
    /\ ~bank[cur].matched
    /\ gl_open # {}

\* the decimal amounts and the days of the input rows are within the bounds
ToleranceCents == 100
Distance(x, y) == IF x < y THEN y - x ELSE x - y
WithinBounds(k, j) ==
    /\ bank_csv[k].txn_date.ok
    /\ bank_csv[k].amount.ok
    /\ gl_csv[j].posting_date.ok
    /\ gl_csv[j].amount.ok
    /\ Distance(gl_csv[j].posting_date.v, bank_csv[k].txn_date.v) <= DATE_WINDOW_DAYS
    /\ Distance(gl_csv[j].amount.v, bank_csv[k].amount.v) <= ToleranceCents

\* C7 as stated: when phase 2 visits a bank record with date and amount, an
\* unmatched GL record is a candidate exactly when its date is at most 3 days
\* and its amount at most 1.00 away; distances 3 days and 1.00 are inside.
C7_InclusiveBoundary ==
    VisitsPresent =>
        \A j \in gl_open :
            j \in ToleranceCandidates(bank[Head(todo)], gl, gl_open)
                <=> WithinBounds(Head(todo), j)

\* The highest token overlap among the candidates of bank row b.
MaxScore(b, cands) ==
    CHOOSE s \in {TokenOverlap(b, gl[j]) : j \in cands} :
        \A j \in cands : TokenOverlap(b, gl[j]) <= s

\* What one iteration of phase 2 on a row with candidates does.
C8_Step ==
    (VisitsPresent /\ candidates' # {}) =>
        LET b   == bank[Head(todo)]
            n   == Cardinality(candidates')
            top == MaxScore(b, candidates')
        IN  /\ (m2' # m2) <=> (n = 1 \/ top >= 1)
            /\ (m2' # m2) =>
                  /\ Len(m2') = Len(m2) + 1
                  /\ m2'[Len(m2')].bank_id = b.bank_id
                  /\ m2'[Len(m2')].match_type = "tolerance_date"
                  /\ \E j \in candidates' : gl[j].gl_id = m2'[Len(m2')].gl_id
                  /\ bank'[Head(todo)].matched
            /\ (n >= 2 /\ top = 0) =>
                  /\ bank' = bank
                  /\ gl' = gl
                  /\ m1' = m1
                  /\ m2' = m2

\* C8: an iteration of phase 2 with a non-empty candidate set emits a
\* tolerance_date MatchResult exactly when there is one candidate or the
\* highest score is at least 1; with two or more candidates all of score 0 the
\* bank record stays unmatched, no GL flag changes and no match is added.
C8_AcceptanceRule == [][C8_Step]_vars

\* Phase 2 has just left a bank row unmatched that had two or more candidates,
\* all of score 0.
C8_Witness ==
    /\ VisitedPresent
    /\ Cardinality(candidates) >= 2
    /\ MaxScore(bank[cur], candidates) = 0
    /\ ~bank[cur].matched
    /\ \A j \in candidates : ~gl[j].matched

TotalMatched ==
    LET rows == {r \in 1..Len(summary) : summary[r].match_type = "TOTAL_MATCHED"}
    IN  summary[CHOOSE r \in rows : TRUE].count

RECURSIVE SumCounts(_, _)
SumCounts(rows, k) ==
    IF k > Len(rows) THEN 0
    ELSE (IF rows[k].match_type = "TOTAL_MATCHED" THEN 0 ELSE rows[k].count)
            + SumCounts(rows, k + 1)

\* C9: with unique ids, TOTAL_MATCHED equals the number of rows of the
\* matched-pairs table, the sum of the per-type counts, and the number of bank
\* records less the number of rows of the unmatched-bank output.
C9_SummaryConsistency ==
    (Finished /\ UniqueIds) =>
        /\ Cardinality({r \in 1..Len(summary) :
                          summary[r].match_type = "TOTAL_MATCHED"}) = 1
        /\ TotalMatched = Len(matched_full)
        /\ TotalMatched = SumCounts(summary, 1)
        /\ TotalMatched = Len(bank) - Len(unmatched_bank)

\* A finished run with a match of each type in the summary.
C9_Witness ==
    /\ pc = "done"
    /\ Len(summary) = 3
    /\ TotalMatched = 2

\* C10: with bank.csv or gl.csv absent the run fails in load_inputs: neither
\* matcher starts, no record is loaded or marked matched, no MatchResult is
\* emitted and no report is written.
C10_MissingInputAborts ==
    (~bank_exists \/ ~gl_exists) =>
        /\ pc \in {"start", "failed"}
        /\ bank = <<>>
        /\ gl = <<>>
        /\ m1 = <<>>
        /\ m2 = <<>>
        /\ matched_full = <<>>
        /\ summary = <<>>
        /\ ~written

\* The run has failed with one of the two files present.
C10_Witness ==
    /\ pc = "failed"
    /\ bank_exists # gl_exists

\* ---------------------------------------------------- normalize_text alone
\* The longest description or memo of NormSpec, and the characters they are
\* written with: a letter in both cases, another letter, two punctuation
\* characters and the space.
MaxTextLen == 3
Alphabet == {"A", "a", "b", "-", ",", " "}
Texts == UNION {[1..n -> Alphabet] : n \in 0..MaxTextLen}

\* Two characters that differ at most in case, or that are each a punctuation
\* character or the space that replaces it.
SameUpToCasePunct(c, d) ==
    \/ Lower(c) = Lower(d)
    \/ c \in PUNCTUATION \cup {" "} /\ d \in PUNCTUATION \cup {" "}

\* Two texts that differ only in letter case and in punctuation replaced by
\* spaces.
Similar(x, y) ==
    /\ x.ok
    /\ y.ok
    /\ Len(x.v) = Len(y.v)
    /\ \A k \in 1..Len(x.v) : SameUpToCasePunct(x.v[k], y.v[k])

TextCells == {Cell(t) : t \in Texts} \cup {NoText}

\* One bank row with any description; one GL row whose memo is missing, the
\* same text, or a text that differs from it in case and punctuation only.
NormInit ==
    /\ bank_exists = TRUE
    /\ gl_exists = TRUE
    /\ \E d \in TextCells :
          /\ bank_csv = BankCsv(<<<<Cell(10), Cell(110), d>>>>)
          /\ gl_csv \in {GlCsv(<<<<Cell(10), Cell(110), m>>>>) :
                            m \in {NoText} \cup {c \in TextCells : Similar(d, c)}}
    /\ pc = "start"
    /\ bank = <<>>
    /\ gl = <<>>
    /\ todo = <<>>
    /\ gl_open = {}
    /\ cur = 0
    /\ candidates = {}
    /\ g = 0
    /\ best = 0
    /\ m1 = <<>>
    /\ m2 = <<>>
    /\ matched_full = <<>>
    /\ unmatched_bank = <<>>
    /\ unmatched_gl = <<>>
    /\ summary = <<>>
    /\ written = FALSE

\* normalize_text applied to its own result: the normalized text becomes the
\* text, and is normalized again.
Renormalize ==
    /\ pc = "loaded"
    /\ bank' = [k \in 1..Len(bank) |->
                  [bank[k] EXCEPT !.description = Cell(bank[k].desc_norm),
                                  !.desc_norm = normalize_text(Cell(bank[k].desc_norm))]]
    /\ gl' = [j \in 1..Len(gl) |->
                [gl[j] EXCEPT !.memo = Cell(gl[j].memo_norm),
                              !.memo_norm = normalize_text(Cell(gl[j].memo_norm))]]
    /\ pc' = "renormalized"
    /\ UNCHANGED <<inputs, todo, gl_open, locals, m1, m2, outputs, written>>

NormNext == LoadInputs \/ Renormalize

NormSpec == NormInit /\ [][NormNext]_vars

\* C11: normalize_text of an already normalized text returns it unchanged, and
\* two texts that differ only in letter case and in punctuation (replaced by
\* spaces) normalize to the same set of whitespace-split tokens.
C11_Normalization ==
    /\ pc = "renormalized" =>
          /\ \A k \in 1..Len(bank) : bank[k].desc_norm = bank[k].description.v
          /\ \A j \in 1..Len(gl) : gl[j].memo_norm = gl[j].memo.v
    /\ pc \in {"loaded", "renormalized"} =>
          \A k \in 1..Len(bank) : \A j \in 1..Len(gl) :
              Similar(bank_csv[k].description, gl_csv[j].memo) =>
                  Tokens(bank[k].desc_norm) = Tokens(gl[j].memo_norm)

\* A description with an upper-case letter and punctuation, and a memo that
\* differs from it, have been normalized twice; they hold two tokens.
C11_Witness ==
    /\ pc = "renormalized"
    /\ Similar(bank_csv[1].description, gl_csv[1].memo)
    /\ bank_csv[1].description # gl_csv[1].memo
    /\ bank_csv[1].description.v # bank[1].desc_norm
    /\ \E k \in 1..Len(bank_csv[1].description.v) :
          bank_csv[1].description.v[k] \in PUNCTUATION
    /\ Cardinality(Tokens(bank[1].desc_norm)) = 2

\* The bank rows and the GL rows of amount a.
BankGroup(a) == {k \in 1..Len(bank) : FEq(bank[k].amount, a)}
GlGroup(a) == {j \in 1..Len(gl) : FEq(gl[j].amount, a)}

\* Bank row k is in a group of as many bank rows as GL rows of its amount.
InBalancedGroup(k) ==
    /\ ~bank[k].amount.nan
    /\ Cardinality(BankGroup(bank[k].amount)) = Cardinality(GlGroup(bank[k].amount))

PhaseOneOver == pc \in {"tolerance", "built", "done"}

\* C12 as stated: when n bank records and n GL records share an amount, for
\* any n >= 1, match_exact_amount pairs every bank record of the group with
\* type exact_amount.
C12_GroupsResolveInPhase1 ==
    PhaseOneOver =>
        \A k \in 1..Len(bank) :
            InBalancedGroup(k) => BankInType(k, "exact_amount")

\* C12 amended: when n bank records and n GL records share an amount, the bank
\* records of the group are paired with type exact_amount exactly when n = 1;
\* for n >= 2 each of them sees n candidates and is left open for phase 2.
C12_OnlySingleGroupsResolve ==
    PhaseOneOver =>
        \A k \in 1..Len(bank) :
            InBalancedGroup(k) =>
                (BankInType(k, "exact_amount")
                    <=> Cardinality(BankGroup(bank[k].amount)) = 1)

\* Phase 1 is over and has left a group of two bank rows and two GL rows of
\* one amount without any match.
C12_Witness ==
    /\ pc = "tolerance"
    /\ m1 = <<>>
    /\ \E k \in 1..Len(bank) :
          /\ InBalancedGroup(k)
          /\ Cardinality(BankGroup(bank[k].amount)) = 2

\* The unmatched GL rows whose amount equals that of bank row i.
OpenEqual(i) == {j \in 1..Len(gl) : ~gl[j].matched /\ FEq(gl[j].amount, bank[i].amount)}

\* What one iteration of phase 1 does.
C13_Step ==
    (pc = "exact" /\ todo # <<>>) =>
        LET i  == Head(todo)
            eq == OpenEqual(i)
        IN  IF Cardinality(eq) = 1
            THEN LET j == CHOOSE x \in eq : TRUE
                 IN  /\ m1' = Append(m1, MatchResult(bank[i], gl[j], "exact_amount"))
                     /\ bank' = [bank EXCEPT ![i].matched = TRUE]
                     /\ gl' = [gl EXCEPT ![j].matched = TRUE]
                     /\ m2' = m2
            ELSE /\ m1' = m1
                 /\ m2' = m2
                 /\ bank' = bank
                 /\ gl' = gl

\* C13: an iteration of match_exact_amount on an unmatched bank record emits
\* an exact_amount MatchResult and marks both records exactly when one
\* currently unmatched GL record has the bank record's amount; with none or
\* with two or more, it changes no flag and no match list.
C13_ExactStepRule == [][C13_Step]_vars

\* Phase 1 has matched a bank row and has then left the next one open: the
\* only GL row of its amount was already claimed.
C13_Witness ==
    /\ pc = "exact"
    /\ m1 # <<>>
    /\ cur # 0
    /\ ~bank[cur].matched
    /\ candidates = {}
    /\ \E j \in 1..Len(gl) : gl[j].matched /\ FEq(gl[j].amount, bank[cur].amount)

\* Phase 2 has not begun while phase 1 runs, the combined list has its
\* exact_amount results before its tolerance_date results, and no record is
\* in a result of each type.
C14_Order ==
    /\ pc \in {"start", "loaded", "exact"} => m2 = <<>>
    /\ \A p \in 1..Len(Matches) : \A q \in 1..Len(Matches) :
          (Matches[p].match_type = "exact_amount"
              /\ Matches[q].match_type = "tolerance_date")
          => /\ p < q
             /\ Matches[p].bank_id # Matches[q].bank_id
             /\ Matches[p].gl_id # Matches[q].gl_id

\* Phase 2 begins from the end of phase 1's loop, and phase 2 leaves the
\* results of phase 1 as they are.
C14_Step ==
    /\ (pc # "tolerance" /\ pc' = "tolerance") => (pc = "exact" /\ todo = <<>>)
    /\ pc = "tolerance" => m1' = m1

\* C14: match_tolerance_date starts only after match_exact_amount has gone
\* through every bank record; in the combined list every exact_amount result
\* precedes every tolerance_date result; and no record matched by phase 1 is
\* in a tolerance_date result.
C14_PhaseOrdering == []C14_Order /\ [][C14_Step]_vars

\* A finished run with results of both phases.
C14_Witness ==
    /\ pc = "done"
    /\ \E p \in 1..Len(Matches) : Matches[p].match_type = "exact_amount"
    /\ \E q \in 1..Len(Matches) : Matches[q].match_type = "tolerance_date"

\* What an emitting iteration of phase 2 chooses.
C15_Step ==
    (pc = "tolerance" /\ m2' # m2) =>
        LET b == bank[Head(todo)]
            n == m2'[Len(m2')]
        IN  /\ n.bank_id = b.bank_id
            /\ \E j \in candidates' :
                  /\ gl[j].gl_id = n.gl_id
                  /\ \A k \in candidates' :
                        TokenOverlap(b, gl[k]) <= TokenOverlap(b, gl[j])

\* C15: whenever match_tolerance_date emits a match for a bank record, the
\* chosen GL record is one of that record's candidates and its token overlap
\* is at least that of every other candidate at that moment.
C15_TopScoreSelection == [][C15_Step]_vars

\* Phase 2 has just matched a bank row that had two candidates of different
\* scores.
C15_Witness ==
    /\ pc = "tolerance"
    /\ m2 # <<>>
    /\ cur # 0
    /\ bank[cur].matched
    /\ m2[Len(m2)].bank_id = bank[cur].bank_id
    /\ \E j \in candidates : \E k \in candidates :
          TokenOverlap(bank[cur], gl[k]) < TokenOverlap(bank[cur], gl[j])

\* C16: when match_exact_amount returns, no unmatched bank record has exactly
\* one unmatched GL record of equal amount (a second pass would match nothing).
C16_PhaseOneSaturated ==
    (pc = "exact" /\ todo = <<>>) =>
        \A k \in 1..Len(bank) :
            ~bank[k].matched => Cardinality(OpenEqual(k)) # 1

\* match_exact_amount returns with a match made and with a bank row of a
\* present amount still unmatched.
C16_Witness ==
    /\ pc = "exact"
    /\ todo = <<>>
    /\ m1 # <<>>
    /\ \E k \in 1..Len(bank) : ~bank[k].matched /\ ~bank[k].amount.nan

\* The input rows a MatchResult names.
BankRowsOf(n) == {k \in 1..Len(bank_csv) : bank_csv[k].bank_id = n.bank_id}
GlRowsOf(n) == {j \in 1..Len(gl_csv) : gl_csv[j].gl_id = n.gl_id}

====
